---- MODULE Spec2Model ----
(***************************************************************************)
(* Model of the grid word-search page (resquare/script.js): the dictionary *)
(* index build, the grid reader, the prefix-pruned depth-first search and  *)
(* the aggregator that runs it over every cell.                            *)
(*                                                                         *)
(* A JavaScript string is a sequence of one-character strings, so that     *)
(* trim, toLowerCase, the regular-expression tests, split, substring,      *)
(* concatenation and the default sort are computed, not assumed.           *)
(***************************************************************************)
EXTENDS Integers, Sequences, FiniteSets, TLC

\* ---------------------------------------------------------------- constants
GRID_SIZE == 4
MIN_WORD_LENGTH == 4
MAX_WORD_LENGTH == 8

DIRECTIONS ==
  << <<-1, -1>>, <<-1, 0>>, <<-1, 1>>,
     << 0, -1>>,            << 0, 1>>,
     << 1, -1>>, << 1, 0>>, << 1, 1>> >>

\* ------------------------------------------------------------------ bounds
\* most lines in a generated dictionary text
MaxLines == 2
\* most setTimeout callbacks pending at once
MaxTimers == 2
\* largest grid size N the display step is run with
MaxGridSize == 11

\* ------------------------------------------------------------- characters
\* The characters the model uses, in UTF-16 code unit order.
Whitespace == <<"\n", "\r", " ">>
Punct == <<",">>
Digits == <<"0", "1", "2", "3", "4", "5", "6", "7", "8", "9">>
Upper ==
  <<"A", "B", "C", "D", "E", "F", "G", "H", "I", "J", "K", "L", "M",
    "N", "O", "P", "Q", "R", "S", "T", "U", "V", "W", "X", "Y", "Z">>
Lower ==
  <<"a", "b", "c", "d", "e", "f", "g", "h", "i", "j", "k", "l", "m",
    "n", "o", "p", "q", "r", "s", "t", "u", "v", "w", "x", "y", "z">>
CharTable == Whitespace \o Punct \o Digits \o Upper \o Lower

Range(s) == {s[i] : i \in 1..Len(s)}

Chars == Range(CharTable)

\* position of a character in code unit order
CharCode == [ch \in Chars |-> CHOOSE i \in 1..Len(CharTable) : CharTable[i] = ch]

\* String.prototype.toLowerCase on one character
LowerOf ==
  [ch \in Chars |->
     IF \E i \in 1..Len(Upper) : Upper[i] = ch
     THEN Lower[CHOOSE i \in 1..Len(Upper) : Upper[i] = ch]
     ELSE ch]

\* String.prototype.toUpperCase on one character
UpperOf ==
  [ch \in Chars |->
     IF \E i \in 1..Len(Lower) : Lower[i] = ch
     THEN Upper[CHOOSE i \in 1..Len(Lower) : Lower[i] = ch]
     ELSE ch]

toLowerCase(s) == [i \in 1..Len(s) |-> LowerOf[s[i]]]

toUpperCase(s) == [i \in 1..Len(s) |-> UpperOf[s[i]]]

IsSpace(ch) == ch \in Range(Whitespace)

\* String.prototype.trim: drop the leading and the trailing white space
trim(s) ==
  LET nonSpace == {i \in 1..Len(s) : ~IsSpace(s[i])}
  IN IF nonSpace = {} THEN <<>>
     ELSE LET first == CHOOSE i \in nonSpace : \A j \in nonSpace : i <= j
              last == CHOOSE i \in nonSpace : \A j \in nonSpace : j <= i
          IN SubSeq(s, first, last)

\* /^[a-z]+$/.test(s)
IsLetters(s) == Len(s) >= 1 /\ \A i \in 1..Len(s) : s[i] \in Range(Lower)

\* s.substring(0, i)
substring0(s, i) == SubSeq(s, 1, IF i <= Len(s) THEN i ELSE Len(s))

\* text.split(/\r?\n/)
RECURSIVE SplitFrom(_, _, _, _)
SplitFrom(text, i, cur, acc) ==
  IF i > Len(text) THEN Append(acc, cur)
  ELSE IF text[i] = "\n" THEN SplitFrom(text, i + 1, <<>>, Append(acc, cur))
  ELSE IF text[i] = "\r" /\ i + 1 <= Len(text) /\ text[i + 1] = "\n"
       THEN SplitFrom(text, i + 2, <<>>, Append(acc, cur))
  ELSE SplitFrom(text, i + 1, Append(cur, text[i]), acc)

split(text) == SplitFrom(text, 1, <<>>, <<>>)

\* a < b in the order Array.prototype.sort uses by default (code units)
StrLess(a, b) ==
  \/ Len(a) < Len(b) /\ SubSeq(b, 1, Len(a)) = a
  \/ \E i \in 1..(IF Len(a) < Len(b) THEN Len(a) ELSE Len(b)) :
        /\ SubSeq(a, 1, i - 1) = SubSeq(b, 1, i - 1)
        /\ CharCode[a[i]] < CharCode[b[i]]

\* a sort whose comparison is reversed
RECURSIVE sortDescending(_)
sortDescending(set) ==
  IF set = {} THEN <<>>
  ELSE LET greatest == CHOOSE a \in set : \A b \in set \ {a} : StrLess(b, a)
       IN <<greatest>> \o sortDescending(set \ {greatest})

\* Array.from(set).sort()
RECURSIVE sort(_)
sort(set) ==
  IF set = {} THEN <<>>
  ELSE LET least == CHOOSE a \in set : \A b \in set \ {a} : StrLess(a, b)
       IN <<least>> \o sort(set \ {least})

\* decimal digits of a natural number (template literal `${n}`)
RECURSIVE NumStr(_)
NumStr(n) ==
  IF n < 10 THEN <<Digits[n + 1]>>
  ELSE NumStr(n \div 10) \o <<Digits[(n % 10) + 1]>>

\* `${row},${col}`
PosString(row, col) == NumStr(row) \o <<",">> \o NumStr(col)

\* ------------------------------------------------------- dictionary index
\* a prefix loop that stops one short of the last length
PrefixesProper(cleanedWord, n) == {substring0(cleanedWord, i) : i \in 1..(n - 1)}

\* the for-loops of lines 81-87, 91-97 and 101-107: prefixes of length 1..n
PrefixesUpTo(cleanedWord, n) == {substring0(cleanedWord, i) : i \in 1..n}

\* the filter without its upper length bound
IsValidWordNoMax(cleanedWord) ==
  /\ Len(cleanedWord) >= MIN_WORD_LENGTH
  /\ IsLetters(cleanedWord)

\* the filter of line 77
IsValidWord(cleanedWord) ==
  /\ Len(cleanedWord) >= MIN_WORD_LENGTH
  /\ Len(cleanedWord) <= MAX_WORD_LENGTH
  /\ IsLetters(cleanedWord)

\* a callback that indexes the valid words only (no second and third branch)
ProcessLineValidOnly(index, word) ==
  LET cleanedWord == toLowerCase(trim(word))
  IN IF IsValidWord(cleanedWord)
     THEN [wordSet |-> index.wordSet \cup {cleanedWord},
           prefixSet |-> index.prefixSet \cup PrefixesUpTo(cleanedWord, Len(cleanedWord))]
     ELSE index

\* one call of the words.forEach callback (lines 74-109) on the index so far
ProcessLine(index, word) ==
  LET cleanedWord == toLowerCase(trim(word))
  IN IF IsValidWord(cleanedWord)
     THEN [wordSet |-> index.wordSet \cup {cleanedWord},
           prefixSet |-> index.prefixSet \cup PrefixesUpTo(cleanedWord, Len(cleanedWord))]
     ELSE IF Len(cleanedWord) > MAX_WORD_LENGTH /\ IsLetters(cleanedWord)
     THEN [wordSet |-> index.wordSet,
           prefixSet |-> index.prefixSet \cup PrefixesUpTo(cleanedWord, MAX_WORD_LENGTH)]
     ELSE IF /\ Len(cleanedWord) > 0
             /\ Len(cleanedWord) < MIN_WORD_LENGTH
             /\ IsLetters(cleanedWord)
     THEN [wordSet |-> index.wordSet,
           prefixSet |-> index.prefixSet \cup PrefixesUpTo(cleanedWord, Len(cleanedWord))]
     ELSE index

\* words.forEach(...) starting from the two fresh sets of lines 69-70
RECURSIVE ForEachLine(_, _, _)
ForEachLine(words, i, index) ==
  IF i > Len(words) THEN index
  ELSE ForEachLine(words, i + 1, ProcessLine(index, words[i]))

BuildIndex(text) == ForEachLine(split(text), 1, [wordSet |-> {}, prefixSet |-> {}])

\* a test that never sees an empty word set
IsEmptyDictionaryNever(set) == Cardinality(set) < 0

\* the test of line 111
IsEmptyDictionary(set) == Cardinality(set) = 0

\* ------------------------------------------------- dictionary files tried
\* a word written as a TLA+ tuple of characters
Cat == <<"c", "a", "t">>
Cats == <<"c", "a", "t", "s">>
Car == <<"c", "a", "r">>
Care == <<"c", "a", "r", "e">>
Carol == <<"c", "a", "r", "o", "l">>
Carer == <<"c", "a", "r", "e", "r">>
Cast == <<"c", "a", "s", "t">>
Acts == <<"a", "c", "t", "s">>

\* lines a generated dictionary file is made of: empty, too short, padded
\* and capitalised, at both ends of the window, too long, with a non-letter
LinePool ==
  { <<>>,
    <<"a", "b">>,
    <<" ", "C", "a", "t", "s", " ">>,
    <<"a", "b", "c", "d", "e", "f", "g", "h">>,
    <<"a", "b", "c", "d", "e", "f", "g", "h", "i">>,
    <<"c", "a", "r", "e", ",">> }

Separators == { <<"\n">>, <<"\r", "\n">> }

RECURSIVE Join(_, _)
Join(lines, sep) ==
  IF Len(lines) = 0 THEN <<>>
  ELSE IF Len(lines) = 1 THEN lines[1]
  ELSE lines[1] \o sep \o Join(Tail(lines), sep)

LineSeqs == UNION {[1..n -> LinePool] : n \in 0..MaxLines}

\* the scenario dictionary of the design notes: cat, cats, car, care, carol
ScenarioText == Join(<<Cat, Cats, Car, Care, Carol>>, <<"\n">>)

\* the texts a fetch of words.txt may return
TextPool ==
  {Join(lines, sep) : lines \in LineSeqs, sep \in Separators} \cup {ScenarioText}

\* ------------------------------------------------------------- grid model
Rows == 0..(GRID_SIZE - 1)

isValid(row, col) == row >= 0 /\ row < GRID_SIZE /\ col >= 0 /\ col < GRID_SIZE

\* the letters array of lines 147-150: every field's value, cleaned
CleanedLetters(inputs) == [i \in 1..Len(inputs) |-> toLowerCase(trim(inputs[i]))]

\* /^[a-z]$/.test(letter)
IsOneLetter(letter) == Len(letter) = 1 /\ letter[1] \in Range(Lower)

\* a validation that looks at the length only
BadLetterLengthOnly(letter) == Len(letter) # 1

\* the test of line 153 on one element of letters
BadLetter(letter) == Len(letter) # 1 \/ ~IsOneLetter(letter)

NoGrid == [row \in Rows |-> [col \in Rows |-> <<>>]]

\* getGridLetters: ok = FALSE stands for the null it returns; why tells the
\* two null returns apart (only the second one updates the status line)
getGridLetters(inputs) ==
  IF Len(inputs) # GRID_SIZE * GRID_SIZE
  THEN [ok |-> FALSE, why |-> "count", grid |-> NoGrid]
  ELSE LET letters == CleanedLetters(inputs)
       IN IF \E i \in 1..Len(letters) : BadLetter(letters[i])
          THEN [ok |-> FALSE, why |-> "letter", grid |-> NoGrid]
          ELSE [ok |-> TRUE, why |-> "none",
                grid |-> [row \in Rows |->
                            [col \in Rows |-> letters[row * GRID_SIZE + col + 1]]]]

\* ------------------------------------------------------------------ state
VARIABLES
  wordSet,             \* global wordSet (line 15)
  prefixSet,           \* global prefixSet (line 16)
  dictionaryLoaded,    \* global dictionaryLoaded (line 17)
  isLoading,           \* global isLoading (line 18)
  pageReady,           \* the DOMContentLoaded handler has run
  solveButtonDisabled, \* solveButton.disabled
  status,              \* what updateStatus last wrote to statusDiv
  resultsDiv,          \* content of resultsDiv
  inputs,              \* values of the .grid-input fields, in document order
  loadPc,              \* where the running loadDictionary call is suspended
  text,                \* the text of the last response read (line 66)
  resolved,            \* the return statement the last finished loadDictionary
                       \* call took, and the value it resolved to
  timers,              \* the grids captured by the pending setTimeout callbacks
  pc,                  \* where the running setTimeout callback is
  grid,                \* the grid the running callback captured
  r,                   \* row loop variable of line 261
  c,                   \* column loop variable of line 262
  stack,               \* stack of findWordsFromCell
  foundWords,          \* foundWords of findWordsFromCell
  words,               \* the array findWordsFromCell last returned (line 263)
  allFoundWords,       \* Map of line 257: key -> words
  uniqueWords,         \* Set of line 258
  totalInstances,      \* counter of line 259
  \* the arcade game (src/unnamed/part_000)
  gameState,             \* global gameState (line 7)
  score,                 \* global score (line 6)
  player,                \* global player (line 2): x, y, w, h, speed
  bullets,               \* global bullets (line 3), in array order
  obstacles,             \* global obstacles (line 4), in array order
  scrollSpeed,           \* global scrollSpeed (line 8), in units of 1/2000
  obstacleSpawnInterval, \* global obstacleSpawnInterval (line 11), in units
                         \* of 1/500 frame
  framesSinceShot,       \* frameCount - lastShotFrame, counted up to fireRate
  framesSinceSpawn       \* frameCount - lastObstacleFrame, counted up to the
                         \* first value above every spawn interval

dictVars == <<wordSet, prefixSet, dictionaryLoaded, isLoading, loadPc, text, resolved>>

searchVars == <<timers, pc, grid, r, c, stack, foundWords, words,
                allFoundWords, uniqueWords, totalInstances>>

\* the variables of the word search page
pageVars == <<wordSet, prefixSet, dictionaryLoaded, isLoading, pageReady,
              solveButtonDisabled, status, resultsDiv, inputs, loadPc, text,
              resolved, timers, pc, grid, r, c, stack, foundWords, words,
              allFoundWords, uniqueWords, totalInstances>>

\* the variables of the arcade game
gameVars == <<gameState, score, player, bullets, obstacles, scrollSpeed,
              obstacleSpawnInterval, framesSinceShot, framesSinceSpawn>>

vars == <<pageVars, gameVars>>

\* ------------------------------------------------------ path search engine
\* a test that reports every continuable string
IsFoundWordAnyPrefix(currentWord) == currentWord \in prefixSet

\* a test whose lower length bound is strict
IsFoundWordAboveMin(currentWord) ==
  /\ Len(currentWord) > MIN_WORD_LENGTH
  /\ Len(currentWord) <= MAX_WORD_LENGTH
  /\ currentWord \in wordSet

\* the test of line 198
IsFoundWord(currentWord) ==
  /\ Len(currentWord) >= MIN_WORD_LENGTH
  /\ Len(currentWord) <= MAX_WORD_LENGTH
  /\ currentWord \in wordSet

\* the test of line 203
CanGrow(currentLen) == currentLen < MAX_WORD_LENGTH

\* a next word that lost the neighbour's letter
NextWordSame(currentWord, nextChar) == currentWord

\* line 212
NextWord(currentWord, nextChar) == currentWord \o nextChar

\* a copy of the visited set the neighbour was not added to
NewVisitedSame(visited, nextPosString) == visited

\* lines 217-218: a copy of the visited set plus the neighbour
NewVisited(visited, nextPosString) == visited \cup {nextPosString}

\* pruning on "is this string itself a word"
IsPrefixWordsOnly(nextWord) == nextWord \in wordSet

\* the pruning test of line 216
IsPrefix(nextWord) == nextWord \in prefixSet

\* the k-th direction without the pruning test: every unvisited neighbour
\* is pushed
PushNeighbourUnpruned(stk, frame, g, k) ==
  LET nextRow == frame.row + DIRECTIONS[k][1]
      nextCol == frame.col + DIRECTIONS[k][2]
  IN IF isValid(nextRow, nextCol) /\ PosString(nextRow, nextCol) \notin frame.visited
     THEN Append(stk, [row |-> nextRow, col |-> nextCol,
                       currentWord |-> NextWord(frame.currentWord, g[nextRow][nextCol]),
                       visited |-> NewVisited(frame.visited,
                                              PosString(nextRow, nextCol))])
     ELSE stk

\* the k-th direction in a loop that is left after its first push: nothing
\* is pushed once a child of the frame is on the stack
PushNeighbourFirstOnly(stk, frame, g, k) ==
  LET nextRow == frame.row + DIRECTIONS[k][1]
      nextCol == frame.col + DIRECTIONS[k][2]
      pushed == /\ Len(stk) > 0
                /\ frame.visited \subseteq stk[Len(stk)].visited
                /\ frame.visited # stk[Len(stk)].visited
  IN IF /\ ~pushed
        /\ isValid(nextRow, nextCol)
        /\ PosString(nextRow, nextCol) \notin frame.visited
     THEN LET nextWord == NextWord(frame.currentWord, g[nextRow][nextCol])
          IN IF IsPrefix(nextWord)
             THEN Append(stk, [row |-> nextRow, col |-> nextCol,
                               currentWord |-> nextWord,
                               visited |-> NewVisited(frame.visited,
                                                      PosString(nextRow, nextCol))])
             ELSE stk
     ELSE stk

\* the k-th direction with one visited set shared by the children of a frame:
\* a child also holds the cell of the sibling pushed just before it
PushNeighbourShared(stk, frame, g, k) ==
  LET nextRow == frame.row + DIRECTIONS[k][1]
      nextCol == frame.col + DIRECTIONS[k][2]
      shared == IF /\ Len(stk) > 0
                   /\ frame.visited \subseteq stk[Len(stk)].visited
                   /\ frame.visited # stk[Len(stk)].visited
                THEN stk[Len(stk)].visited
                ELSE frame.visited
  IN IF isValid(nextRow, nextCol) /\ PosString(nextRow, nextCol) \notin shared
     THEN LET nextWord == NextWord(frame.currentWord, g[nextRow][nextCol])
          IN IF IsPrefix(nextWord)
             THEN Append(stk, [row |-> nextRow, col |-> nextCol,
                               currentWord |-> nextWord,
                               visited |-> NewVisited(shared,
                                                      PosString(nextRow, nextCol))])
             ELSE stk
     ELSE stk

\* lines 205-221 for the k-th direction: the stack after it
PushNeighbour(stk, frame, g, k) ==
  LET nextRow == frame.row + DIRECTIONS[k][1]
      nextCol == frame.col + DIRECTIONS[k][2]
  IN IF isValid(nextRow, nextCol) /\ PosString(nextRow, nextCol) \notin frame.visited
     THEN LET nextWord == NextWord(frame.currentWord, g[nextRow][nextCol])
          IN IF IsPrefix(nextWord)
             THEN Append(stk, [row |-> nextRow, col |-> nextCol,
                               currentWord |-> nextWord,
                               visited |-> NewVisited(frame.visited,
                                                      PosString(nextRow, nextCol))])
             ELSE stk
     ELSE stk

\* the for-loop of line 204, from direction k on
RECURSIVE PushNeighbours(_, _, _, _)
PushNeighbours(stk, frame, g, k) ==
  IF k > Len(DIRECTIONS) THEN stk
  ELSE PushNeighbours(PushNeighbour(stk, frame, g, k), frame, g, k + 1)

\* one iteration of the while-loop (lines 193-223)
DfsStep(stk, found, g) ==
  LET frame == stk[Len(stk)]
      popped == SubSeq(stk, 1, Len(stk) - 1)
  IN [stack |-> IF CanGrow(Len(frame.currentWord))
                THEN PushNeighbours(popped, frame, g, 1)
                ELSE popped,
      foundWords |-> IF IsFoundWord(frame.currentWord)
                     THEN found \cup {frame.currentWord}
                     ELSE found]

\* a start that pushes the first frame without the test of line 185
InitialStackAlways(startRow, startCol, g) ==
  << [row |-> startRow, col |-> startCol, currentWord |-> g[startRow][startCol],
      visited |-> {PosString(startRow, startCol)}] >>

\* lines 180-189: the stack the loop starts with
InitialStack(startRow, startCol, g) ==
  LET startChar == g[startRow][startCol]
  IN IF startChar \in prefixSet
     THEN << [row |-> startRow, col |-> startCol, currentWord |-> startChar,
              visited |-> {PosString(startRow, startCol)}] >>
     ELSE <<>>

\* the while-loop of line 191 run to its end
RECURSIVE RunDfs(_, _, _)
RunDfs(stk, found, g) ==
  IF Len(stk) = 0 THEN found
  ELSE LET next == DfsStep(stk, found, g)
       IN RunDfs(next.stack, next.foundWords, g)

findWordsFromCell(startRow, startCol, g) ==
  sort(RunDfs(InitialStack(startRow, startCol, g), {}, g))

\* ------------------------------------------------------ grids typed in
Blank16 == [i \in 1..(GRID_SIZE * GRID_SIZE) |-> <<>>]

\* the fields after the letters of rows (a tuple of characters) were typed
\* into the first Len(rows) fields
Typed(rows) ==
  [i \in 1..(GRID_SIZE * GRID_SIZE) |-> IF i <= Len(rows) THEN <<rows[i]>> ELSE <<>>]

ScenarioRows ==
  <<"C", "A", "T", "S",  "O", "R", "E", "N",
    "G", "L", "A", "D",  "X", "Y", "Z", "Q">>

\* abcdefgh laid out as a snake that can end on either of two h's, then an
\* i next to both
SnakeRows ==
  <<"A", "B", "C", "D",  "H", "G", "F", "E",
    "I", "H", "X", "X",  "X", "X", "X", "X">>

\* cats can be spelled along several paths from the c
ManyPathRows ==
  <<"C", "A", "T", "S",  "A", "T", "S", "X",
    "X", "X", "X", "X",  "X", "X", "X", "X">>

\* field values no keystroke produces but a script or the browser can set:
\* lower case and padded, a field too many or too few, two letters in a field
ScriptedInputs ==
  { [i \in 1..(GRID_SIZE * GRID_SIZE) |->
       IF i % 2 = 0 THEN <<" ">> \o toLowerCase(<<ScenarioRows[i]>>) \o <<" ">>
       ELSE toLowerCase(<<ScenarioRows[i]>>)],
    SubSeq(Typed(ScenarioRows), 1, GRID_SIZE * GRID_SIZE - 1),
    Typed(ScenarioRows) \o << <<"A">> >>,
    [Typed(ScenarioRows) EXCEPT ![1] = <<"C", "A">>],
    [Typed(ScenarioRows) EXCEPT ![GRID_SIZE] = <<"7">>] }

\* the contents of the input fields the model explores
InputPool ==
  {Blank16}
  \cup {Typed(SubSeq(rows, 1, Len(rows) - k)) :
          rows \in {ScenarioRows, SnakeRows, ManyPathRows}, k \in 0..2}
  \cup ScriptedInputs

\* what a keystroke or a paste leaves in a field before the input handler runs
KeyPool == { <<>>, <<"7">>, <<"q">>, <<"Q">>, <<"x">>, <<"z">>, <<"Z">> }

\* ----------------------------------------------------------- arcade game
\* The p5.js sketch of src/unnamed/part_000. Its stars are left out: they
\* are written by setup, drawStars and windowResized and read by drawStars
\* only. Lengths are pixels; a test on halves of odd lengths is written on
\* the doubled quantities.
fireRate == 15
baseScrollSpeed == 3

\* the size of the browser window (p5 globals windowWidth, windowHeight)
windowWidth == 122
windowHeight == 50

\* largest score at which a frame of the game is still played
MaxScore == 10

\* keyCode values of the keys pressed: the spacebar and W
KeyCodes == {32, 87}

\* what the player holds down during a frame (keyIsDown, lines 43 and 46)
HeldKeys == {"none", "up", "down"}

\* the values createObstacle draws (lines 77-79): the type, random(50,
\* windowHeight - 50), and the speed the obstacle ends up with
ObstacleDraws ==
  { [type |-> "ENEMY_JET", obsY |-> 40, speed |-> 4],
    [type |-> "MISSILE", obsY |-> 10, speed |-> 5] }

\* createPlayer (lines 16-22)
createPlayer == [x |-> 100, y |-> windowHeight \div 2, w |-> 40, h |-> 20, speed |-> 5]

\* the speed is one that lines 79, 87 and 112 can produce: scrollSpeed times
\* a factor from 0.8 up to 1.5, times 1.2 for a missile
SpeedPossible(draw, scroll) ==
  IF draw.type = "ENEMY_JET"
  THEN 8 * scroll <= draw.speed * 20000 /\ draw.speed * 20000 < 15 * scroll
  ELSE 96 * scroll <= draw.speed * 200000 /\ draw.speed * 200000 < 180 * scroll

\* random(50, windowHeight - 50): a value between the two arguments
YPossible(draw) ==
  LET a == 50
      b == windowHeight - 50
  IN IF a <= b THEN a <= draw.obsY /\ draw.obsY <= b
     ELSE b <= draw.obsY /\ draw.obsY <= a

\* createObstacle (lines 76-136) for the values drawn
createObstacle(draw) ==
  IF draw.type = "ENEMY_JET"
  THEN [x |-> windowWidth + 50, y |-> draw.obsY, w |-> 35, h |-> 15,
        speed |-> draw.speed, type |-> draw.type, points |-> 50]
  ELSE [x |-> windowWidth + 30, y |-> draw.obsY, w |-> 25, h |-> 8,
        speed |-> draw.speed, type |-> draw.type, points |-> 20]

\* the bullet shoot pushes (lines 57-61)
createBullet(p) == [x |-> p.x + p.w \div 2, y |-> p.y, size |-> 8, speed |-> 10]

\* the globals as the script leaves them (lines 2-13) and setup (line 152)
InitGame ==
  /\ gameState = "START"
  /\ score = 0
  /\ player = createPlayer
  /\ bullets = <<>>
  /\ obstacles = <<>>
  /\ scrollSpeed = 3 * 2000
  /\ obstacleSpawnInterval = 90 * 500
  /\ framesSinceShot = 0
  /\ framesSinceSpawn = 0

\* player.move (lines 42-49)
move(p, held) ==
  IF held = "up" /\ 2 * p.y > p.h + 20 THEN [p EXCEPT !.y = p.y - p.speed]
  ELSE IF held = "down" /\ 2 * p.y < 2 * windowHeight - p.h - 20
  THEN [p EXCEPT !.y = p.y + p.speed]
  ELSE p

\* array.splice(i, 1)
splice(array, i) == SubSeq(array, 1, i - 1) \o SubSeq(array, i + 1, Len(array))

\* updateObstacles (lines 274-286) from index i down, the game being played:
\* the obstacles and the score after it
RECURSIVE updateObstacles(_, _, _)
updateObstacles(obs, sc, i) ==
  IF i < 1 THEN [obstacles |-> obs, score |-> sc]
  ELSE LET moved == [obs EXCEPT ![i].x = obs[i].x - obs[i].speed]
       IN IF moved[i].x < 0 - moved[i].w
          THEN updateObstacles(splice(moved, i), sc + 5, i - 1)
          ELSE updateObstacles(moved, sc, i - 1)

\* updateBullets (lines 294-302) from index i down
RECURSIVE updateBullets(_, _)
updateBullets(bs, i) ==
  IF i < 1 THEN bs
  ELSE LET moved == [bs EXCEPT ![i].x = bs[i].x + bs[i].speed]
       IN IF moved[i].x > windowWidth + moved[i].size
          THEN updateBullets(splice(moved, i), i - 1)
          ELSE updateBullets(moved, i - 1)

\* the overlap test of lines 327-332
PlayerHits(p, obs) ==
  /\ 2 * p.x + p.w > 2 * obs.x - obs.w
  /\ 2 * p.x - p.w < 2 * obs.x + obs.w
  /\ 2 * p.y + p.h > 2 * obs.y - obs.h
  /\ 2 * p.y - p.h < 2 * obs.y + obs.h

\* the distance test of line 344
BulletHits(bullet, obs) ==
  LET reach == (IF obs.w > obs.h THEN obs.w ELSE obs.h) + bullet.size
      dx == bullet.x - obs.x
      dy == bullet.y - obs.y
  IN 4 * (dx * dx + dy * dy) < reach * reach

\* lines 339-351 from bullet i down: bullets, obstacles and score after it
RECURSIVE bulletsVsObstacles(_, _, _, _)
bulletsVsObstacles(bs, obs, sc, i) ==
  IF i < 1 THEN [bullets |-> bs, obstacles |-> obs, score |-> sc]
  ELSE LET hit == {j \in 1..Len(obs) : BulletHits(bs[i], obs[j])}
       IN IF hit = {}
          THEN bulletsVsObstacles(bs, obs, sc, i - 1)
          ELSE LET j == CHOOSE k \in hit : \A l \in hit : l <= k
               IN bulletsVsObstacles(splice(bs, i), splice(obs, j),
                                     sc + obs[j].points, i - 1)

\* the counters of frames since the last shot and the last spawn attempt
\* after frameCount went up by one
Ticked(n, top) == IF n < top THEN n + 1 ELSE n

\* the spawn test of line 312
SpawnDue(since, interval) == since * 500 > interval

\* lines 192-193
SpeedFor(sc) == baseScrollSpeed * 2000 + sc

IntervalFor(sc) == IF 30 * 500 > 90 * 500 - sc THEN 30 * 500 ELSE 90 * 500 - sc

\* gameOver (lines 356-359)
gameOver == gameState' = "GAME_OVER"

\* a reset that keeps the score
resetGameKeepScore ==
  /\ player' = createPlayer
  /\ bullets' = <<>>
  /\ obstacles' = <<>>
  /\ score' = score
  /\ scrollSpeed' = baseScrollSpeed * 2000
  /\ framesSinceSpawn' = 0
  /\ gameState' = "PLAYING"

\* resetGame (lines 361-369)
resetGame ==
  /\ player' = createPlayer
  /\ bullets' = <<>>
  /\ obstacles' = <<>>
  /\ score' = 0
  /\ scrollSpeed' = baseScrollSpeed * 2000
  /\ framesSinceSpawn' = 0
  /\ gameState' = "PLAYING"

\* one frame: p5 adds one to frameCount and calls draw (lines 165-179).
\* Outside PLAYING only screens are drawn; lastObstacleFrame is set by
\* resetGame before spawnObstacles reads it again, so the frames since the
\* last spawn attempt are counted while the game is played only.
DrawScreen ==
  /\ gameState # "PLAYING"
  /\ framesSinceShot' = Ticked(framesSinceShot, fireRate)
  /\ UNCHANGED <<gameState, score, player, bullets, obstacles, scrollSpeed,
                 obstacleSpawnInterval, framesSinceSpawn>>
  /\ UNCHANGED pageVars

\* one frame of the game: runGame (lines 183-202). held is what keyIsDown
\* answers, spawn whether random(1) < 0.6, draw what createObstacle draws
DrawGame(held, spawn, draw) ==
  /\ gameState = "PLAYING"
  /\ score < MaxScore
  /\ SpeedPossible(draw, scrollSpeed)
  /\ YPossible(draw)
  /\ LET sinceSpawn == Ticked(framesSinceSpawn, 90 + 1)
         moved == move(player, held)
         passed == updateObstacles(obstacles, score, Len(obstacles))
         flying == updateBullets(bullets, Len(bullets))
         due == SpawnDue(sinceSpawn, obstacleSpawnInterval)
         spawned == IF due /\ spawn
                    THEN Append(passed.obstacles, createObstacle(draw))
                    ELSE passed.obstacles
         crash == \E i \in 1..Len(spawned) : PlayerHits(moved, spawned[i])
         shot == bulletsVsObstacles(flying, spawned, passed.score, Len(flying))
     IN /\ framesSinceShot' = Ticked(framesSinceShot, fireRate)
        /\ framesSinceSpawn' = IF due THEN 0 ELSE sinceSpawn
        /\ player' = moved
        /\ IF crash
           THEN /\ gameOver
                /\ bullets' = flying
                /\ obstacles' = spawned
                /\ score' = passed.score
           ELSE /\ UNCHANGED gameState
                /\ bullets' = shot.bullets
                /\ obstacles' = shot.obstacles
                /\ score' = shot.score
        /\ scrollSpeed' = SpeedFor(score')
        /\ obstacleSpawnInterval' = IntervalFor(score')
  /\ UNCHANGED pageVars

\* keyPressed (lines 372-380), with player.shoot (lines 50-71)
keyPressed(keyCode) ==
  /\ IF keyCode = 32
     THEN IF gameState = "PLAYING"
          THEN /\ IF framesSinceShot < fireRate
                  THEN UNCHANGED <<framesSinceShot, bullets>>
                  ELSE /\ framesSinceShot' = 0
                       /\ bullets' = Append(bullets, createBullet(player))
               /\ UNCHANGED <<gameState, score, player, obstacles, scrollSpeed,
                              obstacleSpawnInterval, framesSinceSpawn>>
          ELSE /\ resetGame
               /\ UNCHANGED <<obstacleSpawnInterval, framesSinceShot>>
     ELSE UNCHANGED gameVars
  /\ UNCHANGED pageVars

\* windowResized (lines 383-402), the window keeping its size
windowResized ==
  /\ IF gameState = "PLAYING" THEN gameOver ELSE UNCHANGED gameState
  /\ UNCHANGED <<score, player, bullets, obstacles, scrollSpeed,
                 obstacleSpawnInterval, framesSinceShot, framesSinceSpawn>>
  /\ UNCHANGED pageVars

NextGame ==
  \/ DrawScreen
  \/ \E held \in HeldKeys, spawn \in BOOLEAN, draw \in ObstacleDraws :
       DrawGame(held, spawn, draw)
  \/ \E keyCode \in KeyCodes : keyPressed(keyCode)
  \/ windowResized

\* ------------------------------------------------------------ page state
NoResults == [kind |-> "blank", unique |-> 0, instances |-> 0, entries |-> <<>>]

\* a map that still holds an entry of an earlier search
UsedMap == [k \in {PosString(GRID_SIZE - 1, GRID_SIZE - 1)} |-> <<Cats>>]

\* new Map()
NoMap == [k \in {} |-> <<>>]

Init ==
  /\ wordSet = {}
  /\ prefixSet = {}
  /\ dictionaryLoaded = FALSE
  /\ isLoading = FALSE
  /\ pageReady = FALSE
  /\ solveButtonDisabled = FALSE
  /\ status = "none"
  /\ resultsDiv = NoResults
  /\ inputs = <<>>
  /\ loadPc = "none"
  /\ text = <<>>
  /\ resolved = [at |-> "none", value |-> FALSE]
  /\ timers = <<>>
  /\ pc = "idle"
  /\ grid = NoGrid
  /\ r = 0
  /\ c = 0
  /\ stack = <<>>
  /\ foundWords = {}
  /\ words = <<>>
  /\ allFoundWords = NoMap
  /\ uniqueWords = {}
  /\ totalInstances = 0
  /\ InitGame

\* no handler, continuation or timer callback runs while another one does
Quiescent == pc = "idle"

\* ------------------------------------------------------- loadDictionary
\* a call that does not look at isLoading
LoadCallEffectNoBusyTest ==
  IF dictionaryLoaded
  THEN /\ resolved' = [at |-> "alreadyLoaded", value |-> TRUE]
       /\ UNCHANGED <<isLoading, status, solveButtonDisabled, loadPc>>
  ELSE /\ isLoading' = TRUE
       /\ status' = "loadingDictionary"
       /\ solveButtonDisabled' = TRUE
       /\ loadPc' = "fetch"
       /\ UNCHANGED resolved

\* a call that starts a load although a dictionary is already loaded
LoadCallEffectReload ==
  IF isLoading
  THEN /\ resolved' = [at |-> "busy", value |-> FALSE]
       /\ UNCHANGED <<isLoading, status, solveButtonDisabled, loadPc>>
  ELSE /\ isLoading' = TRUE
       /\ status' = "loadingDictionary"
       /\ solveButtonDisabled' = TRUE
       /\ loadPc' = "fetch"
       /\ UNCHANGED resolved

\* lines 53-59: the call up to its first await
LoadCallEffect ==
  IF dictionaryLoaded
  THEN /\ resolved' = [at |-> "alreadyLoaded", value |-> TRUE]
       /\ UNCHANGED <<isLoading, status, solveButtonDisabled, loadPc>>
  ELSE IF isLoading
  THEN /\ resolved' = [at |-> "busy", value |-> FALSE]
       /\ UNCHANGED <<isLoading, status, solveButtonDisabled, loadPc>>
  ELSE /\ isLoading' = TRUE
       /\ status' = "loadingDictionary"
       /\ solveButtonDisabled' = TRUE
       /\ loadPc' = "fetch"
       /\ UNCHANGED resolved

\* lines 357-362: the fields are generated, the click listener is registered
\* and the dictionary load is started
DOMContentLoaded ==
  /\ ~pageReady
  /\ pageReady' = TRUE
  /\ inputs' = Blank16
  /\ LoadCallEffect
  /\ UNCHANGED <<wordSet, prefixSet, dictionaryLoaded, text, resultsDiv>>
  /\ UNCHANGED searchVars
  /\ UNCHANGED gameVars

\* loadDictionary called again (it is a global function; the comment of
\* lines 236-237 suggests such a retry)
LoadDictionaryCall ==
  /\ pageReady
  /\ Quiescent
  /\ LoadCallEffect
  /\ UNCHANGED <<wordSet, prefixSet, dictionaryLoaded, text, resultsDiv,
                 inputs, pageReady>>
  /\ UNCHANGED searchVars
  /\ UNCHANGED gameVars

\* line 62-66: fetch resolved with response.ok
FetchResolved ==
  /\ Quiescent
  /\ loadPc = "fetch"
  /\ loadPc' = "text"
  /\ UNCHANGED <<wordSet, prefixSet, dictionaryLoaded, isLoading, text, resolved,
                 pageReady, solveButtonDisabled, status, resultsDiv, inputs>>
  /\ UNCHANGED searchVars
  /\ UNCHANGED gameVars

\* fetch rejected, response.ok false or response.text() rejected:
\* lines 121-125 and the finally block
LoadFailed ==
  /\ Quiescent
  /\ loadPc \in {"fetch", "text"}
  /\ loadPc' = "none"
  /\ status' = "errorLoading"
  /\ dictionaryLoaded' = FALSE
  /\ resolved' = [at |-> "caught", value |-> FALSE]
  /\ isLoading' = FALSE
  /\ solveButtonDisabled' = ~dictionaryLoaded'
  /\ UNCHANGED <<wordSet, prefixSet, text, pageReady, resultsDiv, inputs>>
  /\ UNCHANGED searchVars
  /\ UNCHANGED gameVars

\* response.text() resolved with t: lines 66-119 and the finally block
TextResolved(t) ==
  /\ Quiescent
  /\ loadPc = "text"
  /\ loadPc' = "none"
  /\ text' = t
  /\ LET index == BuildIndex(t)
     IN /\ wordSet' = index.wordSet
        /\ prefixSet' = index.prefixSet
  /\ IF IsEmptyDictionary(wordSet')
     THEN /\ status' = "errorNoValidWords"
          /\ UNCHANGED dictionaryLoaded
     ELSE /\ status' = "dictionaryLoaded"
          /\ dictionaryLoaded' = TRUE
  /\ resolved' = [at |-> "built", value |-> TRUE]
  /\ isLoading' = FALSE
  /\ solveButtonDisabled' = ~dictionaryLoaded'
  /\ UNCHANGED <<pageReady, resultsDiv, inputs>>
  /\ UNCHANGED searchVars
  /\ UNCHANGED gameVars

\* --------------------------------------------------------- input fields
\* value.toUpperCase().replace(/[^A-Z]/g, '') of line 312
RECURSIVE KeepUpper(_)
KeepUpper(s) ==
  IF Len(s) = 0 THEN <<>>
  ELSE (IF Head(s) \in Range(Upper) THEN <<Head(s)>> ELSE <<>>) \o KeepUpper(Tail(s))

\* the input handler of lines 310-323 on field i, typed being the value the
\* keystroke left in it (focus moves are not modelled)
InputEvent(i, typed) ==
  /\ pageReady
  /\ Quiescent
  /\ i \in 1..Len(inputs)
  /\ inputs' = [inputs EXCEPT ![i] = KeepUpper(toUpperCase(typed))]
  /\ inputs' # inputs
  /\ inputs' \in InputPool
  /\ UNCHANGED <<pageReady, solveButtonDisabled, status, resultsDiv>>
  /\ UNCHANGED dictVars
  /\ UNCHANGED searchVars
  /\ UNCHANGED gameVars

\* the Backspace case of the keydown handler (lines 335-343) on field i
KeydownBackspace(i) ==
  /\ pageReady
  /\ Quiescent
  /\ i \in 2..Len(inputs)
  /\ inputs[i] = <<>>
  /\ inputs' = [inputs EXCEPT ![i - 1] = <<>>]
  /\ inputs' # inputs
  /\ inputs' \in InputPool
  /\ UNCHANGED <<pageReady, solveButtonDisabled, status, resultsDiv>>
  /\ UNCHANGED dictVars
  /\ UNCHANGED searchVars
  /\ UNCHANGED gameVars

\* the fields are changed from outside the handlers (a script, the browser):
\* querySelectorAll of line 139 reads whatever the document holds
DomChange(fields) ==
  /\ pageReady
  /\ Quiescent
  /\ fields # inputs
  /\ inputs' = fields
  /\ UNCHANGED <<pageReady, solveButtonDisabled, status, resultsDiv>>
  /\ UNCHANGED dictVars
  /\ UNCHANGED searchVars
  /\ UNCHANGED gameVars

\* a click handler that leaves the button enabled while the search is pending
SolveClickButtonLeft ==
  /\ pageReady
  /\ Quiescent
  /\ ~solveButtonDisabled
  /\ Len(timers) < MaxTimers
  /\ IF ~dictionaryLoaded
     THEN /\ status' = "errorNotLoaded"
          /\ UNCHANGED <<solveButtonDisabled, resultsDiv, timers>>
     ELSE IF isLoading
     THEN /\ status' = "stillLoading"
          /\ UNCHANGED <<solveButtonDisabled, resultsDiv, timers>>
     ELSE LET got == getGridLetters(inputs)
          IN IF ~got.ok
             THEN /\ status' = IF got.why = "letter" THEN "errorGrid" ELSE status
                  /\ UNCHANGED <<solveButtonDisabled, resultsDiv, timers>>
             ELSE /\ status' = "searching"
                  /\ UNCHANGED solveButtonDisabled
                  /\ resultsDiv' = NoResults
                  /\ timers' = Append(timers, got.grid)
  /\ UNCHANGED <<pageReady, inputs, pc, grid, r, c, stack, foundWords, words,
                 allFoundWords, uniqueWords, totalInstances>>
  /\ UNCHANGED dictVars
  /\ UNCHANGED gameVars

\* ------------------------------------------------------------------ solve
\* the click listener of line 359: solve up to and including setTimeout.
\* A disabled button dispatches no click.
SolveClick ==
  /\ pageReady
  /\ Quiescent
  /\ ~solveButtonDisabled
  /\ Len(timers) < MaxTimers
  /\ IF ~dictionaryLoaded
     THEN /\ status' = "errorNotLoaded"
          /\ UNCHANGED <<solveButtonDisabled, resultsDiv, timers>>
     ELSE IF isLoading
     THEN /\ status' = "stillLoading"
          /\ UNCHANGED <<solveButtonDisabled, resultsDiv, timers>>
     ELSE LET got == getGridLetters(inputs)
          IN IF ~got.ok
             THEN /\ status' = IF got.why = "letter" THEN "errorGrid" ELSE status
                  /\ UNCHANGED <<solveButtonDisabled, resultsDiv, timers>>
             ELSE /\ status' = "searching"
                  /\ solveButtonDisabled' = TRUE
                  /\ resultsDiv' = NoResults
                  /\ timers' = Append(timers, got.grid)
  /\ UNCHANGED <<pageReady, inputs, pc, grid, r, c, stack, foundWords, words,
                 allFoundWords, uniqueWords, totalInstances>>
  /\ UNCHANGED dictVars
  /\ UNCHANGED gameVars

\* the callback of line 256 starts: lines 257-263 and, inside the first
\* findWordsFromCell call, lines 177-189
TimerFires ==
  /\ Quiescent
  /\ Len(timers) > 0
  /\ timers' = Tail(timers)
  /\ grid' = Head(timers)
  /\ allFoundWords' = NoMap
  /\ uniqueWords' = {}
  /\ totalInstances' = 0
  /\ r' = 0
  /\ c' = 0
  /\ foundWords' = {}
  /\ stack' = InitialStack(0, 0, grid')
  /\ pc' = "dfs"
  /\ UNCHANGED <<words, pageReady, solveButtonDisabled, status, resultsDiv, inputs>>
  /\ UNCHANGED dictVars
  /\ UNCHANGED gameVars

\* one iteration of the while-loop of line 191
DfsPop ==
  /\ pc = "dfs"
  /\ Len(stack) > 0
  /\ LET next == DfsStep(stack, foundWords, grid)
     IN /\ stack' = next.stack
        /\ foundWords' = next.foundWords
  /\ UNCHANGED <<timers, pc, grid, r, c, words, allFoundWords, uniqueWords,
                 totalInstances>>
  /\ UNCHANGED <<pageReady, solveButtonDisabled, status, resultsDiv, inputs>>
  /\ UNCHANGED dictVars
  /\ UNCHANGED gameVars

\* the loop ends and findWordsFromCell returns (line 226)
CellReturns ==
  /\ pc = "dfs"
  /\ Len(stack) = 0
  /\ words' = sort(foundWords)
  /\ pc' = "returned"
  /\ UNCHANGED <<timers, grid, r, c, stack, foundWords, allFoundWords, uniqueWords,
                 totalInstances>>
  /\ UNCHANGED <<pageReady, solveButtonDisabled, status, resultsDiv, inputs>>
  /\ UNCHANGED dictVars
  /\ UNCHANGED gameVars

\* a set that always writes the entry of the first cell
MapSetFirstKey(map, key, value) ==
  [k \in (DOMAIN map) \cup {PosString(0, 0)} |->
     IF k = PosString(0, 0) THEN value ELSE map[k]]

\* Map.prototype.set
MapSet(map, key, value) ==
  [k \in (DOMAIN map) \cup {key} |-> IF k = key THEN value ELSE map[k]]

\* lines 264-269, then the loops of lines 261-262 move on: either the next
\* findWordsFromCell call starts (lines 177-189) or the loops are over
CellRecorded ==
  /\ pc = "returned"
  /\ IF Len(words) > 0
     THEN /\ allFoundWords' = MapSet(allFoundWords, PosString(r, c), words)
          /\ uniqueWords' = uniqueWords \cup Range(words)
          /\ totalInstances' = totalInstances + Len(words)
     ELSE UNCHANGED <<allFoundWords, uniqueWords, totalInstances>>
  /\ r' = IF c + 1 < GRID_SIZE THEN r ELSE r + 1
  /\ c' = IF c + 1 < GRID_SIZE THEN c + 1 ELSE 0
  /\ foundWords' = {}
  /\ IF r' < GRID_SIZE
     THEN /\ stack' = InitialStack(r', c', grid)
          /\ pc' = "dfs"
     ELSE /\ stack' = <<>>
          /\ pc' = "display"
  /\ UNCHANGED <<timers, grid, words>>
  /\ UNCHANGED <<pageReady, solveButtonDisabled, status, resultsDiv, inputs>>
  /\ UNCHANGED dictVars
  /\ UNCHANGED gameVars

\* key.split(',').map(Number) of line 282
RECURSIVE Number(_)
Number(digits) ==
  IF Len(digits) = 0 THEN 0
  ELSE 10 * Number(SubSeq(digits, 1, Len(digits) - 1))
       + (CHOOSE d \in 0..9 : Digits[d + 1] = digits[Len(digits)])

KeyParts(key) ==
  LET comma == CHOOSE i \in 1..Len(key) : key[i] = ","
  IN <<Number(SubSeq(key, 1, comma - 1)), Number(SubSeq(key, comma + 1, Len(key)))>>

\* lines 277-287: what is written to resultsDiv when something was found
Report(map, unique, total, g) ==
  LET sortedKeys == sort(DOMAIN map)
  IN [kind |-> "report",
      unique |-> Cardinality(unique),
      instances |-> total,
      entries |-> [i \in 1..Len(sortedKeys) |->
                     LET key == sortedKeys[i]
                         rc == KeyParts(key)
                     IN [r |-> rc[1], c |-> rc[2],
                         startChar |-> toUpperCase(g[rc[1]][rc[2]]),
                         words |-> map[key]]]]

\* lines 274-291: the results are displayed and the callback ends
Display ==
  /\ pc = "display"
  /\ resultsDiv' = IF Cardinality(DOMAIN allFoundWords) = 0
                   THEN [NoResults EXCEPT !.kind = "noWordsFound"]
                   ELSE Report(allFoundWords, uniqueWords, totalInstances, grid)
  /\ status' = "searchComplete"
  /\ solveButtonDisabled' = FALSE
  /\ pc' = "idle"
  /\ grid' = NoGrid
  /\ r' = 0
  /\ c' = 0
  /\ words' = <<>>
  /\ allFoundWords' = NoMap
  /\ uniqueWords' = {}
  /\ totalInstances' = 0
  /\ UNCHANGED <<timers, stack, foundWords, pageReady, inputs>>
  /\ UNCHANGED dictVars
  /\ UNCHANGED gameVars

\* lines 257-271 as one function of the grid and the index: every cell is
\* searched with findWordsFromCell, starting from empty collections
searchAll(g) ==
  LET found == [cell \in Rows \X Rows |-> findWordsFromCell(cell[1], cell[2], g)]
      hits == {cell \in Rows \X Rows : Len(found[cell]) > 0}
      lens == [cell \in Rows \X Rows |-> Len(found[cell])]
      sum[todo \in SUBSET (Rows \X Rows)] ==
        IF todo = {} THEN 0
        ELSE LET cell == CHOOSE x \in todo : TRUE
             IN lens[cell] + sum[todo \ {cell}]
  IN [allFoundWords |->
        [k \in {PosString(cell[1], cell[2]) : cell \in hits} |->
           found[CHOOSE cell \in hits : PosString(cell[1], cell[2]) = k]],
      uniqueWords |-> UNION {Range(found[cell]) : cell \in hits},
      totalInstances |-> sum[hits]]

\* --------------------------------------------------------- specifications
\* the dictionary files the page is run with
SearchTexts ==
  { ScenarioText,
    Join(<<Cats, Cast, Acts, Carer, Carol>>, <<"\n">>),
    Join(<< <<"a", "b">>, <<"a", "b", "c", "d">>,
            <<"a", "b", "c", "d", "e", "f", "g", "h">>,
            <<"a", "b", "c", "d", "e", "f", "g", "h", "i">> >>, <<"\r", "\n">>),
    Join(<< <<" ", "C", "a", "t", "s", " ">>, <<"c", "a", "7", "s">> >>, <<"\n">>),
    <<"a", "b", "c", "d", "e", "f", "g", "h", "i">>,
    <<>> }

Next ==
  \/ DOMContentLoaded
  \/ LoadDictionaryCall
  \/ FetchResolved
  \/ LoadFailed
  \/ \E t \in SearchTexts : TextResolved(t)
  \/ \E i \in 1..(GRID_SIZE * GRID_SIZE), typed \in KeyPool : InputEvent(i, typed)
  \/ \E i \in 1..(GRID_SIZE * GRID_SIZE) : KeydownBackspace(i)
  \/ \E fields \in InputPool : DomChange(fields)
  \/ SolveClick
  \/ TimerFires
  \/ DfsPop
  \/ CellReturns
  \/ CellRecorded
  \/ Display

Spec == Init /\ [][Next]_vars

\* the timer callback is synchronous code: once started it runs on
FairSpec == Spec /\ WF_vars(DfsPop) /\ WF_vars(CellReturns) /\ WF_vars(CellRecorded)

\* timers fire (line 256 asks for 10 ms) and the callback runs to its end
LiveSpec == FairSpec /\ WF_vars(TimerFires) /\ WF_vars(Display)

\* the arcade game alone
GameSpec == Init /\ [][NextGame]_vars

\* the dictionary load alone, over every generated dictionary file
NextBuild ==
  \/ DOMContentLoaded
  \/ LoadDictionaryCall
  \/ FetchResolved
  \/ LoadFailed
  \/ \E t \in TextPool : TextResolved(t)

BuildSpec == Init /\ [][NextBuild]_vars

\* the display step of lines 274-291 alone, for every grid size N up to
\* MaxGridSize: the page after a search over an N x N grid of a's with the
\* dictionary aaaa, the map holding entries for one or two of the cells
Aaaa == <<"a", "a", "a", "a">>

KeyCells(n) == ({0, 1, 2, n - 1} \cap 0..(n - 1)) \X ({0, 1, n - 1} \cap 0..(n - 1))

InitKeys ==
  \E n \in 1..MaxGridSize :
    \E cell1 \in KeyCells(n), cell2 \in KeyCells(n) :
      LET index == BuildIndex(Aaaa)
          cells == {cell1, cell2}
      IN /\ wordSet = index.wordSet
         /\ prefixSet = index.prefixSet
         /\ dictionaryLoaded = TRUE
         /\ isLoading = FALSE
         /\ pageReady = TRUE
         /\ solveButtonDisabled = TRUE
         /\ status = "searching"
         /\ resultsDiv = NoResults
         /\ inputs = [i \in 1..(n * n) |-> <<"A">>]
         /\ loadPc = "none"
         /\ text = Aaaa
         /\ resolved = [at |-> "built", value |-> TRUE]
         /\ timers = <<>>
         /\ pc = "display"
         /\ grid = [row \in 0..(n - 1) |-> [col \in 0..(n - 1) |-> <<"a">>]]
         /\ r = n
         /\ c = 0
         /\ stack = <<>>
         /\ foundWords = {}
         /\ words = <<>>
         /\ allFoundWords = [k \in {PosString(cell[1], cell[2]) : cell \in cells}
                               |-> <<Aaaa>>]
         /\ uniqueWords = {Aaaa}
         /\ totalInstances = Cardinality(cells)
         /\ InitGame

NextKeys == Display

KeySpec == InitKeys /\ [][NextKeys]_vars

\* ------------------------------------------------- notions the claims use
\* a Letter: one character between a and z in code unit order
IsLetter(ch) == CharCode[ch] >= CharCode["a"] /\ CharCode[ch] <= CharCode["z"]

LetterOnly(str) == Len(str) > 0 /\ \A i \in 1..Len(str) : IsLetter(str[i])

InWindow(str) == Len(str) \in MIN_WORD_LENGTH..MAX_WORD_LENGTH

\* the lines of a dictionary file, trimmed and lower-cased
CleanedLines(t) == {toLowerCase(trim(line)) : line \in Range(split(t))}

LetterLines(t) == {cleaned \in CleanedLines(t) : LetterOnly(cleaned)}

Min(a, b) == IF a < b THEN a ELSE b

\* the eight neighbour offsets, as a set
Offsets == ({-1, 0, 1} \X {-1, 0, 1}) \ {<<0, 0>>}

InBounds(row, col) == row \in Rows /\ col \in Rows

\* w[i..] is spelled by pairwise distinct, adjacent, in-bounds cells starting
\* at (row, col), none of them in seen
RECURSIVE SpelledOn(_, _, _, _, _, _)
SpelledOn(g, w, i, row, col, seen) ==
  /\ g[row][col] = <<w[i]>>
  /\ \/ i = Len(w)
     \/ \E d \in Offsets :
          /\ InBounds(row + d[1], col + d[2])
          /\ <<row + d[1], col + d[2]>> \notin seen \cup {<<row, col>>}
          /\ SpelledOn(g, w, i + 1, row + d[1], col + d[2], seen \cup {<<row, col>>})

SpelledFrom(g, row, col, w) == Len(w) > 0 /\ SpelledOn(g, w, 1, row, col, {})

\* w[i..] is spelled by adjacent in-bounds cells starting at (row, col), cells
\* possibly used twice
RECURSIVE WalkedOn(_, _, _, _, _)
WalkedOn(g, w, i, row, col) ==
  /\ g[row][col] = <<w[i]>>
  /\ \/ i = Len(w)
     \/ \E d \in Offsets :
          /\ InBounds(row + d[1], col + d[2])
          /\ WalkedOn(g, w, i + 1, row + d[1], col + d[2])

\* the grids of the explored field contents that getGridLetters accepts
ValidGrids == {getGridLetters(fields).grid : fields \in {f \in InputPool : getGridLetters(f).ok}}

\* ------------------------------------------------------------------ claims
\* C1: completeness of the search. When findWordsFromCell returns for the
\* cell (r, c), every word of wordSet that some sequence of pairwise distinct,
\* 8-adjacent, in-bounds cells starting at (r, c) spells is in the result.
C1_Complete ==
  pc = "returned" =>
    \A w \in wordSet : SpelledFrom(grid, r, c, w) => w \in Range(words)

\* a search returned several words, one of them longer than MIN_WORD_LENGTH,
\* while another word of the dictionary is not spelled from that cell
C1_Witness ==
  /\ pc = "returned"
  /\ Len(words) >= 2
  /\ \E w \in Range(words) : Len(w) > MIN_WORD_LENGTH
  /\ \E w \in wordSet : ~SpelledFrom(grid, r, c, w)

\* C2: soundness of the search. Every word findWordsFromCell returns for the
\* cell (r, c) is in wordSet and is spelled by a path that starts at (r, c),
\* moves between 8-adjacent in-bounds cells and uses no cell twice.
C2_Sound ==
  pc = "returned" =>
    \A w \in Range(words) : w \in wordSet /\ SpelledFrom(grid, r, c, w)

\* a search returned words, and left out a dictionary word that only a walk
\* through a cell used twice spells
C2_Witness ==
  /\ pc = "returned"
  /\ Len(words) > 0
  /\ \E w \in wordSet \ Range(words) : WalkedOn(grid, w, 1, r, c)

\* C3: every reported word, in the result of one cell, in the map, in the
\* set of unique words and in the displayed report, has a length between
\* MIN_WORD_LENGTH and MAX_WORD_LENGTH.
C3_LengthBounds ==
  /\ \A w \in Range(words) : InWindow(w)
  /\ \A key \in DOMAIN allFoundWords : \A w \in Range(allFoundWords[key]) : InWindow(w)
  /\ \A w \in uniqueWords : InWindow(w)
  /\ \A i \in 1..Len(resultsDiv.entries) :
       \A w \in Range(resultsDiv.entries[i].words) : InWindow(w)

\* one cell reported a word of the least and a word of the greatest length,
\* from a start letter that alone is a continuable prefix
C3_Witness ==
  /\ pc = "returned"
  /\ \E w \in Range(words) : Len(w) = MIN_WORD_LENGTH
  /\ \E w \in Range(words) : Len(w) = MAX_WORD_LENGTH
  /\ grid[r][c] \in prefixSet

\* C4: wordSet is exactly the set of the cleaned lines of the text last read
\* that consist of letters only and have a length in the window.
C4_WordSetExact ==
  wordSet = {cleaned \in LetterLines(text) : InWindow(cleaned)}

\* a build kept a word and rejected a letter-only line longer than the window
C4_Witness ==
  /\ resolved.at = "built"
  /\ wordSet # {}
  /\ \E cleaned \in LetterLines(text) : Len(cleaned) > MAX_WORD_LENGTH

\* C5: every non-empty prefix of every word of wordSet is in prefixSet.
C5_PrefixInvariant ==
  \A w \in wordSet : \A i \in 1..Len(w) : SubSeq(w, 1, i) \in prefixSet

\* a build kept a word of the greatest length
C5_Witness ==
  /\ resolved.at = "built"
  /\ \E w \in wordSet : Len(w) = MAX_WORD_LENGTH

\* C6: prefixSet is exactly the set of the prefixes of length
\* 1..min(length, MAX_WORD_LENGTH) of the letter-only cleaned lines of the
\* text last read, whatever their length; none is longer than MAX_WORD_LENGTH.
C6_PrefixSetExact ==
  /\ prefixSet =
       UNION { {SubSeq(cleaned, 1, i) : i \in 1..Min(Len(cleaned), MAX_WORD_LENGTH)} :
               cleaned \in LetterLines(text) }
  /\ \A p \in prefixSet : Len(p) <= MAX_WORD_LENGTH

\* a build read a letter-only line shorter than the window, one longer than
\* it and no valid word
C6_Witness ==
  /\ resolved.at = "built"
  /\ wordSet = {}
  /\ \E cleaned \in LetterLines(text) : Len(cleaned) < MIN_WORD_LENGTH
  /\ \E cleaned \in LetterLines(text) : Len(cleaned) > MAX_WORD_LENGTH

\* C7: a loadDictionary call that ran the build signals a failure to its
\* caller (resolves to false) exactly when the build left wordSet empty, and
\* then the index is not marked as loaded.
C7_EmptySignalled ==
  resolved.at = "built" =>
    /\ (resolved.value = FALSE) <=> (wordSet = {})
    /\ (wordSet = {}) => ~dictionaryLoaded

\* the letter-only lines of the text are all longer than the window
OnlyLongLines(t) ==
  /\ LetterLines(t) # {}
  /\ \A cleaned \in LetterLines(t) : Len(cleaned) > MAX_WORD_LENGTH

AllCellsEmpty ==
  \A g \in ValidGrids : \A row \in Rows, col \in Rows :
     Len(findWordsFromCell(row, col, g)) = 0

\* C8 as stated: after a build from a file whose letter-only lines are all
\* too long, prefixSet is populated, wordSet is empty, and a solve request
\* runs a search (the tests of lines 234 and 240 let it through) that finds
\* nothing in any cell.
C8_SearchRunsEmpty ==
  (OnlyLongLines(text) /\ loadPc = "none") =>
    /\ prefixSet # {}
    /\ wordSet = {}
    /\ dictionaryLoaded /\ ~isLoading
    /\ AllCellsEmpty

\* C8 amended: after a build from a file whose letter-only lines are all
\* too long, prefixSet is populated and wordSet is empty, the dictionary is
\* not marked as loaded and the solve button is disabled, so that no search
\* is pending or running; findWordsFromCell on that index would return the
\* empty result for every cell of every valid grid.
C8_NoSearchAfterLongOnly ==
  OnlyLongLines(text) =>
    /\ prefixSet # {}
    /\ wordSet = {}
    /\ ~dictionaryLoaded
    /\ solveButtonDisabled
    /\ Len(timers) = 0 /\ pc = "idle"
    /\ AllCellsEmpty

\* such a build finished, the fields hold a valid grid and the search from
\* its first cell would have frames to explore
C8_Witness ==
  /\ OnlyLongLines(text)
  /\ resolved.at = "built"
  /\ status = "errorNoValidWords"
  /\ getGridLetters(inputs).ok
  /\ Len(InitialStack(0, 0, getGridLetters(inputs).grid)) > 0

\* every field holds exactly one Letter, and there are GRID_SIZE^2 fields
SuppliedLetters(fields) ==
  /\ Len(fields) = GRID_SIZE * GRID_SIZE
  /\ \A i \in 1..Len(fields) : Len(fields[i]) = 1 /\ IsLetter(fields[i][1])

\* the same of the fields' values after trimming and lower-casing
SuppliedLettersCleaned(fields) ==
  /\ Len(fields) = GRID_SIZE * GRID_SIZE
  /\ \A i \in 1..Len(fields) :
       LET cleaned == toLowerCase(trim(fields[i]))
       IN Len(cleaned) = 1 /\ IsLetter(cleaned[1])

\* a solve request that got past the dictionary tests started no search and
\* left the results and the button alone
SolveRejected ==
  /\ timers' = timers
  /\ pc' = pc
  /\ resultsDiv' = resultsDiv
  /\ solveButtonDisabled' = solveButtonDisabled

SolveWithDictionary == SolveClick /\ dictionaryLoaded /\ ~isLoading

\* C9 as stated: a solve request gets no grid exactly when the number of
\* fields differs from GRID_SIZE^2 or some field is not exactly one Letter,
\* and then it starts no search and leaves results and button unchanged.
C9_GridRejectedStrict ==
  [][SolveWithDictionary =>
       /\ (timers' = timers) <=> ~SuppliedLetters(inputs)
       /\ (timers' = timers) => SolveRejected]_vars

\* C9 amended: a solve request gets no grid exactly when the number of
\* fields differs from GRID_SIZE^2 or some field is not, after trimming and
\* lower-casing, exactly one letter a-z, and then it starts no search and
\* leaves results and button unchanged.
C9_GridRejectedCleaned ==
  [][SolveWithDictionary =>
       /\ (timers' = timers) <=> ~SuppliedLettersCleaned(inputs)
       /\ (timers' = timers) => SolveRejected]_vars

\* a solve request was rejected for a bad field while the report of an
\* earlier search is still displayed and the button still enabled
C9_Witness ==
  /\ status = "errorGrid"
  /\ dictionaryLoaded
  /\ ~SuppliedLettersCleaned(inputs)
  /\ resultsDiv.kind = "report"
  /\ ~solveButtonDisabled
  /\ Len(timers) = 0

\* one loop iteration removed the top frame and pushed only frames whose
\* candidate is one letter longer than the candidate of the removed frame
PushedOneLonger ==
  LET below == Len(stack) - 1
  IN /\ Len(stack') >= below
     /\ SubSeq(stack', 1, below) = SubSeq(stack, 1, below)
     /\ \A i \in (below + 1)..Len(stack') :
          Len(stack'[i].currentWord) = Len(stack[Len(stack)].currentWord) + 1

\* C10: the search from a cell terminates: every pushed frame's candidate is
\* one letter longer than that of the frame it was expanded from, no frame's
\* candidate is longer than MAX_WORD_LENGTH, and the stack becomes empty.
C10_Terminates ==
  /\ [][DfsPop => PushedOneLonger]_vars
  /\ [](\A i \in 1..Len(stack) : Len(stack[i].currentWord) <= MAX_WORD_LENGTH)
  /\ (pc = "dfs") ~> (pc = "dfs" /\ Len(stack) = 0)

\* a frame whose candidate has the greatest length is on the stack, below
\* or above other frames
C10_Witness ==
  /\ pc = "dfs"
  /\ \E i \in 1..Len(stack) : Len(stack[i].currentWord) = MAX_WORD_LENGTH
  /\ Cardinality(stack[Len(stack)].visited) = MAX_WORD_LENGTH


\* a comes before b in the dictionary order of their letters
LexLess(a, b) ==
  \E k \in 0..Min(Len(a), Len(b)) :
    /\ \A i \in 1..k : a[i] = b[i]
    /\ \/ k = Len(a) /\ k < Len(b)
       \/ k < Len(a) /\ k < Len(b) /\ CharCode[a[k + 1]] < CharCode[b[k + 1]]

\* the number of sequences of pairwise distinct adjacent cells that start at
\* (row, col), avoid seen and spell w[i..]
RECURSIVE NumPaths(_, _, _, _, _, _)
RECURSIVE SumPaths(_, _, _, _, _, _, _)
NumPaths(g, w, i, row, col, seen) ==
  IF g[row][col] # <<w[i]>> THEN 0
  ELSE IF i = Len(w) THEN 1
  ELSE SumPaths(g, w, i, row, col, seen \cup {<<row, col>>}, Offsets)

SumPaths(g, w, i, row, col, seen, todo) ==
  IF todo = {} THEN 0
  ELSE LET d == CHOOSE x \in todo : TRUE
           here == IF /\ InBounds(row + d[1], col + d[2])
                      /\ <<row + d[1], col + d[2]>> \notin seen
                   THEN NumPaths(g, w, i + 1, row + d[1], col + d[2], seen)
                   ELSE 0
       IN here + SumPaths(g, w, i, row, col, seen, todo \ {d})

\* C12: the array findWordsFromCell returns is in strictly ascending
\* lexicographic order, so it has no duplicates, and holds exactly the words
\* found, however many paths spell the same word.
C12_SortedNoDuplicates ==
  pc = "returned" =>
    /\ \A i \in 1..Len(words) : \A j \in 1..Len(words) :
         i < j => LexLess(words[i], words[j])
    /\ Range(words) = foundWords

\* a search returned two words or more, each spelled along several paths
C12_Witness ==
  /\ pc = "returned"
  /\ Len(words) >= 2
  /\ \A w \in Range(words) : NumPaths(grid, w, 1, r, c, {}) >= 2

\* the words a search from (row, col) has to report: the dictionary words
\* that a path from the cell spells
WordsFrom(g, row, col) == {w \in wordSet : SpelledFrom(g, row, col, w)}

RECURSIVE SumOver(_, _)
SumOver(cells, g) ==
  IF cells = {} THEN 0
  ELSE LET cell == CHOOSE x \in cells : TRUE
       IN Cardinality(WordsFrom(g, cell[1], cell[2])) + SumOver(cells \ {cell}, g)

\* the cells a word of the dictionary is spelled from
CellsWithWords(g) == {cell \in Rows \X Rows : WordsFrom(g, cell[1], cell[2]) # {}}

\* C13: when the loops over the cells are over, the map holds exactly the
\* cells with a non-empty result, each with its words; uniqueWords is the
\* union of the per-cell word sets and totalInstances the sum of their sizes.
C13_Aggregate ==
  pc = "display" =>
    /\ DOMAIN allFoundWords =
         {PosString(cell[1], cell[2]) : cell \in CellsWithWords(grid)}
    /\ \A cell \in CellsWithWords(grid) :
         Range(allFoundWords[PosString(cell[1], cell[2])])
           = WordsFrom(grid, cell[1], cell[2])
    /\ uniqueWords = UNION {WordsFrom(grid, cell[1], cell[2]) : cell \in Rows \X Rows}
    /\ totalInstances = SumOver(Rows \X Rows, grid)
    /\ Cardinality(uniqueWords) <= totalInstances

\* the loops are over and some word was found from two starting cells
C13_Witness ==
  /\ pc = "display"
  /\ Cardinality(uniqueWords) < totalInstances
  /\ \E k1 \in DOMAIN allFoundWords : \E k2 \in DOMAIN allFoundWords :
       k1 # k2 /\ Range(allFoundWords[k1]) \cap Range(allFoundWords[k2]) # {}


\* C14: the entries of a displayed report are in row-major order of their
\* starting cells: ascending row, then ascending column.
C14_RowMajor ==
  resultsDiv.kind = "report" =>
    \A i \in 1..Len(resultsDiv.entries) : \A j \in 1..Len(resultsDiv.entries) :
      i < j =>
        \/ resultsDiv.entries[i].r < resultsDiv.entries[j].r
        \/ /\ resultsDiv.entries[i].r = resultsDiv.entries[j].r
           /\ resultsDiv.entries[i].c < resultsDiv.entries[j].c


\* C15: what a search hands to the display step, and what the display step
\* writes, is the value of searchAll on the grid and the index, whatever ran
\* before: two searches of the same grid with the same index give the same
\* mapping, word sequences and counts, and nothing is carried over.
C15_Deterministic ==
  [][Display =>
       LET all == searchAll(grid)
       IN /\ allFoundWords = all.allFoundWords
          /\ uniqueWords = all.uniqueWords
          /\ totalInstances = all.totalInstances
          /\ resultsDiv' =
               IF DOMAIN all.allFoundWords = {}
               THEN [NoResults EXCEPT !.kind = "noWordsFound"]
               ELSE Report(all.allFoundWords, all.uniqueWords,
                           all.totalInstances, grid)]_vars

\* a search of the grid in the fields is over and found words from several
\* cells, more than one from some cell
C15_Witness ==
  /\ pc = "display"
  /\ getGridLetters(inputs).ok
  /\ grid = getGridLetters(inputs).grid
  /\ Cardinality(DOMAIN allFoundWords) >= 2
  /\ \E k \in DOMAIN allFoundWords : Len(allFoundWords[k]) >= 2


\* a search is requested or running: its timer is pending or its callback
\* has started and not ended
SearchActive == Len(timers) > 0 \/ pc # "idle"

\* C16: from the solve request to the end of the deferred callback no load
\* is in progress and the pair (wordSet, prefixSet) is the complete index of
\* the text last read and does not change; the pair changes only in the one
\* step that builds both sets in full, while no search is active.
C16_AtomicSwap ==
  /\ [](SearchActive =>
          /\ loadPc = "none"
          /\ ~isLoading
          /\ dictionaryLoaded
          /\ wordSet = BuildIndex(text).wordSet
          /\ prefixSet = BuildIndex(text).prefixSet)
  /\ [][<<wordSet, prefixSet>>' # <<wordSet, prefixSet>> =>
          /\ ~SearchActive /\ ~SearchActive'
          /\ wordSet' = BuildIndex(text').wordSet
          /\ prefixSet' = BuildIndex(text').prefixSet]_vars

\* loadDictionary was called with the dictionary loaded, and a search is
\* under way on a stack of frames
C16_Witness ==
  /\ pc = "dfs"
  /\ Len(stack) > 0
  /\ resolved.at = "alreadyLoaded"


\* the grid c a t s / o r e n / g l a d / x y z q
ScenarioGrid ==
  LET rows == << <<"c", "a", "t", "s">>, <<"o", "r", "e", "n">>,
                 <<"g", "l", "a", "d">>, <<"x", "y", "z", "q">> >>
  IN [row \in Rows |-> [col \in Rows |-> <<rows[row + 1][col + 1]>>]]

\* a search of the scenario grid with the dictionary cat, cats, car, care, carol
InScenario == dictionaryLoaded /\ text = ScenarioText /\ grid = ScenarioGrid

\* C17: on the scenario grid with the scenario dictionary the search from
\* cell (0,0) returns cats and care, no search returns cat or car, and the
\* map handed to the display step says the same.
C17_Scenario ==
  /\ InScenario /\ pc = "returned" =>
       /\ (r = 0 /\ c = 0) => Cats \in Range(words) /\ Care \in Range(words)
       /\ Cat \notin Range(words) /\ Car \notin Range(words)
  /\ InScenario /\ pc = "display" =>
       /\ PosString(0, 0) \in DOMAIN allFoundWords
       /\ {Cats, Care} \subseteq Range(allFoundWords[PosString(0, 0)])
       /\ \A k \in DOMAIN allFoundWords :
            Cat \notin Range(allFoundWords[k]) /\ Car \notin Range(allFoundWords[k])

\* the search from the c of the scenario grid has returned
C17_Witness ==
  /\ InScenario
  /\ pc = "returned"
  /\ r = 0 /\ c = 0
  /\ Cats \in Range(words)


\* C18: whenever a loadDictionary call resolves, its value is true exactly
\* when dictionaryLoaded is true at that moment.
C18_TrueIffLoaded ==
  [][(resolved' # resolved \/ (loadPc # "none" /\ loadPc' = "none")) =>
       (resolved'.value = dictionaryLoaded')]_vars


\* the letter of the cell the current findWordsFromCell call started from
\* is in prefixSet
StartKnown == grid[r][c] \in prefixSet

\* C19: a call whose starting letter is not in prefixSet begins with an
\* empty stack, never has a frame to process and returns the empty array;
\* any other call begins with exactly one frame: the starting cell, the
\* starting letter as candidate and the starting cell alone as visited.
C19_InitialFrame ==
  /\ []((pc = "dfs" /\ ~StartKnown) => (stack = <<>> /\ foundWords = {}))
  /\ []((pc = "returned" /\ ~StartKnown) => words = <<>>)
  /\ [][(pc # "dfs" /\ pc' = "dfs") =>
          IF grid'[r'][c'] \in prefixSet'
          THEN /\ Len(stack') = 1
               /\ stack'[1].row = r' /\ stack'[1].col = c'
               /\ stack'[1].currentWord = grid'[r'][c']
               /\ Len(stack'[1].currentWord) = 1
               /\ Cardinality(stack'[1].visited) = 1
               /\ \A key \in stack'[1].visited : KeyParts(key) = <<r', c'>>
          ELSE stack' = <<>>]_vars

\* in one pass over the grid a call found words and a later call, from a
\* letter no word starts with, returned at once
C19_Witness ==
  /\ pc = "returned"
  /\ ~StartKnown
  /\ words = <<>>
  /\ DOMAIN allFoundWords # {}


\* the frame invariant on one frame
GoodFrame(frame) ==
  /\ frame.currentWord \in prefixSet
  /\ Len(frame.currentWord) = Cardinality(frame.visited)
  /\ Len(frame.currentWord) >= 1
  /\ Len(frame.currentWord) <= MAX_WORD_LENGTH
  /\ InBounds(frame.row, frame.col)
  /\ \E key \in frame.visited : KeyParts(key) = <<frame.row, frame.col>>

\* C20: every frame on the stack has a candidate string in prefixSet whose
\* length is the size of the frame's visited set and lies between 1 and
\* MAX_WORD_LENGTH, and a current cell that is in bounds and in the visited
\* set.
C20_FrameInvariant == \A i \in 1..Len(stack) : GoodFrame(stack[i])

\* a search with several frames on its stack, one of them at a candidate of
\* the greatest length
C20_Witness ==
  /\ pc = "dfs"
  /\ Len(stack) >= 2
  /\ \E i \in 1..Len(stack) : Len(stack[i].currentWord) = MAX_WORD_LENGTH


\* the key of the cell a frame stands on, built from its decimal digits
FrameKey(frame) == NumStr(frame.row) \o <<",">> \o NumStr(frame.col)

\* one loop iteration left every frame below the expanded one as it was and
\* gave each child the visited set of the expanded frame plus the child's own
\* cell: no child holds the cell of a sibling
FreshCopies ==
  LET below == Len(stack) - 1
      parent == stack[Len(stack)]
      children == (below + 1)..Len(stack')
  IN /\ Len(stack') >= below
     /\ \A i \in 1..below : stack'[i] = stack[i]
     /\ \A i \in children :
          /\ FrameKey(stack'[i]) \notin parent.visited
          /\ stack'[i].visited = parent.visited \cup {FrameKey(stack'[i])}
     /\ \A i \in children : \A j \in children :
          i # j => /\ FrameKey(stack'[i]) # FrameKey(stack'[j])
                   /\ FrameKey(stack'[j]) \notin stack'[i].visited

\* C21: expanding a frame changes no other frame of the stack, and every
\* pushed child owns the expanded frame's visited set plus its own cell
\* only, so the cell of one child is unvisited for every sibling.
C21_FreshVisited == [][DfsPop => FreshCopies]_vars

\* two children of one frame are on the stack, above an older frame
C21_Witness ==
  /\ pc = "dfs"
  /\ Len(stack) >= 3
  /\ \E i \in 1..Len(stack) : \E j \in 1..Len(stack) :
       /\ i # j
       /\ FrameKey(stack[i]) # FrameKey(stack[j])
       /\ Cardinality(stack[i].visited) >= 2
       /\ stack[i].visited \ {FrameKey(stack[i])}
            = stack[j].visited \ {FrameKey(stack[j])}


\* orders in which the entries of DIRECTIONS can be evaluated, as tuples of
\* indices into DIRECTIONS: the order of the source, every order that swaps
\* two entries, every rotation, and the reverse order
SourceOrder == [k \in 1..Len(DIRECTIONS) |-> k]

Swapped(a, b) ==
  [k \in 1..Len(DIRECTIONS) |-> IF k = a THEN b ELSE IF k = b THEN a ELSE k]

Rotated(s) == [k \in 1..Len(DIRECTIONS) |-> ((k + s - 1) % Len(DIRECTIONS)) + 1]

Reversed == [k \in 1..Len(DIRECTIONS) |-> Len(DIRECTIONS) + 1 - k]

DirectionOrders ==
  {Swapped(a, b) : a \in 1..Len(DIRECTIONS), b \in 1..Len(DIRECTIONS)}
    \cup {Rotated(s) : s \in 1..Len(DIRECTIONS)}
    \cup {Reversed}

\* the for-loop of line 204 with the directions taken in the given order
RECURSIVE PushInOrder(_, _, _, _, _)
PushInOrder(stk, frame, g, order, i) ==
  IF i > Len(order) THEN stk
  ELSE PushInOrder(PushNeighbour(stk, frame, g, order[i]), frame, g, order, i + 1)

\* findWordsFromCell with the directions taken in the given order
RECURSIVE RunInOrder(_, _, _, _)
RunInOrder(stk, found, g, order) ==
  IF Len(stk) = 0 THEN found
  ELSE LET frame == stk[Len(stk)]
           popped == SubSeq(stk, 1, Len(stk) - 1)
       IN RunInOrder(IF CanGrow(Len(frame.currentWord))
                     THEN PushInOrder(popped, frame, g, order, 1)
                     ELSE popped,
                     IF IsFoundWord(frame.currentWord)
                     THEN found \cup {frame.currentWord}
                     ELSE found,
                     g, order)

FoundInOrder(startRow, startCol, g, order) ==
  sort(RunInOrder(InitialStack(startRow, startCol, g), {}, g, order))

\* C22: the array a search from a cell returns is the same for every order
\* in which the entries of DIRECTIONS are evaluated, and it is the array the
\* search in the order of the source returned.
C22_OrderIndependent ==
  pc = "returned" =>
    /\ FoundInOrder(r, c, grid, SourceOrder) = words
    /\ \A order \in DirectionOrders :
         FoundInOrder(r, c, grid, order) = FoundInOrder(r, c, grid, SourceOrder)

\* a search returned several words, and the reverse order pushes the
\* children of its first frame in another sequence than the source order
C22_Witness ==
  /\ pc = "returned"
  /\ Len(words) >= 2
  /\ PushInOrder(<<>>, InitialStack(r, c, grid)[1], grid, Reversed, 1)
       # PushInOrder(<<>>, InitialStack(r, c, grid)[1], grid, SourceOrder, 1)


\* a load is in progress: a loadDictionary call is suspended at an await
LoadInProgress == loadPc # "none"

\* C23: a load is in progress exactly while isLoading is true and never
\* while dictionaryLoaded is true; a load starts only from a state with no
\* load in progress and no dictionary loaded; a loadDictionary call made
\* while isLoading or dictionaryLoaded is true returns at once, starts no
\* fetch and leaves wordSet and prefixSet alone; and when a load ends,
\* isLoading is false and the solve button is enabled exactly when
\* dictionaryLoaded is true.
C23_SingleLoad ==
  /\ [](LoadInProgress <=> isLoading)
  /\ [](LoadInProgress => ~dictionaryLoaded)
  /\ [][(loadPc # "fetch" /\ loadPc' = "fetch") =>
          (~LoadInProgress /\ ~isLoading /\ ~dictionaryLoaded)]_vars
  /\ [][(LoadDictionaryCall /\ (isLoading \/ dictionaryLoaded)) =>
          /\ UNCHANGED <<wordSet, prefixSet, dictionaryLoaded, isLoading, loadPc,
                         text, status, solveButtonDisabled>>
          /\ resolved'.at = (IF dictionaryLoaded THEN "alreadyLoaded" ELSE "busy")]_vars
  /\ [][(LoadInProgress /\ ~LoadInProgress') =>
          /\ ~isLoading'
          /\ solveButtonDisabled' = ~dictionaryLoaded']_vars

\* a call made during a load returned at the test of line 54, and the load
\* it met is still in progress, its fetch answered
C23_Witness ==
  /\ resolved.at = "busy"
  /\ loadPc = "text"
  /\ isLoading


\* C24: a search is requested only by a click made with dictionaryLoaded
\* true, isLoading false and field contents getGridLetters accepts, and it is
\* handed the grid read at that moment; while it is pending or running the
\* solve button is disabled and no second search is pending; the callback
\* works on the grid it was handed, whatever the fields hold by then; and
\* the search ends with the button enabled again.
C24_SolveProtocol ==
  /\ [](SearchActive => (solveButtonDisabled /\ dictionaryLoaded /\ ~isLoading))
  /\ [](Len(timers) <= 1 /\ (pc # "idle" => Len(timers) = 0))
  /\ [][Len(timers') > Len(timers) =>
          /\ dictionaryLoaded /\ ~isLoading /\ ~solveButtonDisabled
          /\ getGridLetters(inputs).ok
          /\ timers' = <<getGridLetters(inputs).grid>>]_vars
  /\ [][(pc = "idle" /\ pc' # "idle") =>
          (Len(timers) > 0 /\ grid' = timers[1])]_vars
  /\ [][(pc # "idle" /\ pc' # "idle") => grid' = grid]_vars
  /\ [][(pc # "idle" /\ pc' = "idle") =>
          (~solveButtonDisabled' /\ status' = "searchComplete")]_vars
  /\ (Len(timers) > 0) ~> (pc = "idle" /\ Len(timers) = 0 /\ ~solveButtonDisabled)

\* a search runs on the grid read at the click while the fields, edited
\* since, hold something else
C24_Witness ==
  /\ pc = "dfs"
  /\ solveButtonDisabled
  /\ inputs # Blank16
  /\ ~getGridLetters(inputs).ok \/ getGridLetters(inputs).grid # grid


\* the rectangles of the player and of an obstacle overlap
Touching(p, obs) ==
  /\ (IF p.x > obs.x THEN p.x - obs.x ELSE obs.x - p.x) * 2 < p.w + obs.w
  /\ (IF p.y > obs.y THEN p.y - obs.y ELSE obs.y - p.y) * 2 < p.h + obs.h

\* a frame of the game being played
PlayingFrame ==
  \E held \in HeldKeys, spawn \in BOOLEAN, draw \in ObstacleDraws :
    DrawGame(held, spawn, draw)

\* C25: gameState is START, PLAYING or GAME_OVER. It becomes PLAYING only
\* from START or GAME_OVER by a spacebar press, which leaves score 0 and
\* bullets and obstacles empty; it becomes GAME_OVER only from PLAYING, by a
\* window resize or by a frame that ends with the player touching an
\* obstacle; it never becomes START. score changes only in a frame of the
\* game being played, where it grows, and in the reset of a spacebar press.
C25_GameStates ==
  /\ [](gameState \in {"START", "PLAYING", "GAME_OVER"})
  /\ [][(gameState' # gameState /\ gameState' = "PLAYING") =>
          /\ gameState \in {"START", "GAME_OVER"}
          /\ keyPressed(32)
          /\ score' = 0 /\ bullets' = <<>> /\ obstacles' = <<>>]_vars
  /\ [][(gameState' # gameState /\ gameState' = "GAME_OVER") =>
          /\ gameState = "PLAYING"
          /\ \/ windowResized
             \/ /\ PlayingFrame
                /\ \E i \in 1..Len(obstacles') : Touching(player', obstacles'[i])]_vars
  /\ [][gameState' = "START" => gameState = "START"]_vars
  /\ [][(gameState \in {"START", "GAME_OVER"} /\ keyPressed(32)) =>
          (gameState' = "PLAYING" /\ score' = 0
           /\ bullets' = <<>> /\ obstacles' = <<>>)]_vars
  /\ [][(gameState = "PLAYING" /\ windowResized) => gameState' = "GAME_OVER"]_vars
  /\ [][(PlayingFrame /\ \E i \in 1..Len(obstacles') :
                           Touching(player', obstacles'[i])) =>
          gameState' = "GAME_OVER"]_vars
  /\ [][score' # score =>
          \/ gameState = "PLAYING" /\ PlayingFrame /\ score' > score
          \/ gameState # "PLAYING" /\ keyPressed(32) /\ score' = 0]_vars

\* a game in which an obstacle was passed or shot has ended, shortly after
\* a shot, with the player touching an obstacle
C25_Witness ==
  /\ gameState = "GAME_OVER"
  /\ score > 0
  /\ framesSinceShot < fireRate
  /\ \E i \in 1..Len(obstacles) : Touching(player, obstacles[i])

====
